---------------------------- MODULE Spec2Model ----------------------------
(***************************************************************************)
(* Model of src/bike_rental_system.py: the bike rental engine on top of a  *)
(* SQLite file.  A session is one BikeRentalSystem object (one process);   *)
(* all sessions share the database file.  Every handler opens its own      *)
(* connection, so the model follows SQLite's rules for connections of the  *)
(* python sqlite3 module in its default (legacy) transaction mode:         *)
(*   - a SELECT outside a transaction reads the committed database;        *)
(*   - the first INSERT/UPDATE opens a transaction and takes the RESERVED  *)
(*     lock of the file, which at most one connection holds; a connection  *)
(*     that cannot get it within the busy timeout raises OperationalError; *)
(*   - writes stay in the writer's uncommitted image until commit();       *)
(*     rollback() and close() discard them.                                *)
(* Money is counted in cents and time in ticks of 1/TicksPerHour hour.     *)
(* The phone column and the model label carry no logic and are left out.   *)
(***************************************************************************)
EXTENDS Integers, Sequences, FiniteSets, TLC

\* ------------------------------------------------------------ bounds
MaxRentals == 2      \* cap on the number of rows of the rentals table
MaxTime == 2         \* cap on the clock, in ticks
TicksPerHour == 1    \* resolution of the clock: ticks per hour
MaxHours == 50       \* cap on the hours a cost is asked for

\* ------------------------------------------------------------ values
None == 0                       \* current_customer = None
NULL == 0 - 1                   \* SQL NULL in rental_end / actual_duration_hours
Sessions == {"s1", "s2"}
MainSession == "s1"
Emails == {"a@x", "b@x"}
Names == {"n1"}
NoSession == "none"

\* insert_sample_data: (bike_type, hourly_rate, daily_rate) in cents
SampleBikes ==
  << [bike_type |-> "Mountain", hourly_rate |-> 1500, daily_rate |-> 8000],
     [bike_type |-> "Road",     hourly_rate |-> 1200, daily_rate |-> 6500],
     [bike_type |-> "Hybrid",   hourly_rate |-> 1000, daily_rate |-> 5500],
     [bike_type |-> "Electric", hourly_rate |-> 2500, daily_rate |-> 12000],
     [bike_type |-> "Mountain", hourly_rate |-> 1400, daily_rate |-> 7500],
     [bike_type |-> "Road",     hourly_rate |-> 1300, daily_rate |-> 7000] >>

\* a row with a label BikeFactory does not know (the column is free TEXT)
UnknownBike ==
  [bike_type |-> "Tandem", hourly_rate |-> 1100, daily_rate |-> 6000]

\* rows a bikes table may hold
InventoryRows == {SampleBikes[i] : i \in DOMAIN SampleBikes} \cup {UnknownBike}

\* the rows of the inventory the model carries
ModelledBikes == {1, 2}

\* inputs a caller may type; bike 7 is in no inventory
BikeInputs == ModelledBikes \cup {Len(SampleBikes) + 1}
DurationInputs == {0, 1}
HoursInputs == (0 - 1)..MaxHours
LongDurationInputs == {0, 1, 7, 30}
RentalInputs == 1..MaxRentals

VARIABLES
  db,                \* the committed database file: bikes, customers, rentals
  reserved,          \* the session whose connection holds the RESERVED lock
  uncommitted,       \* the database image of the open write transaction
  current_customer,  \* per session: BikeRentalSystem.current_customer (id)
  pc,                \* per session: position inside the running handler
  local,             \* per session: local variables of the running handler
  last,              \* what the call that just returned reported; none once the menu is up
  now                \* the latest reading of datetime.now(), in ticks

vars == <<db, reserved, uncommitted, current_customer, pc, local, last, now>>

\* ------------------------------------------------------------ pricing
\* mutant: MountainBike without the 20% discount on the partial day
MountainCostNoDiscount(hourly_rate, daily_rate, hours) ==
  IF hours <= 4 THEN hours * hourly_rate
  ELSE (hours \div 24) * daily_rate + (hours % 24) * hourly_rate

\* Bike subclasses' calculate_rental_cost, in cents
MountainCost(hourly_rate, daily_rate, hours) ==
  IF hours <= 4 THEN hours * hourly_rate
  ELSE (hours \div 24) * daily_rate + ((hours % 24) * hourly_rate * 8) \div 10

RoadCost(hourly_rate, daily_rate, hours) ==
  IF hours <= 3 THEN hours * hourly_rate
  ELSE (hours \div 24) * daily_rate + (hours % 24) * hourly_rate

HybridCost(hourly_rate, daily_rate, hours) ==
  IF hours <= 6 THEN hours * hourly_rate
  ELSE (hours \div 24) * daily_rate + ((hours % 24) * hourly_rate * 9) \div 10

ElectricCost(hourly_rate, daily_rate, hours) ==
  (IF hours <= 8 THEN hours * hourly_rate
   ELSE (hours \div 24) * daily_rate + (hours % 24) * hourly_rate)
  + hours * 200

\* mutant: an unknown label falls back to RoadBike
create_bike_road(bike_type) ==
  IF bike_type \in {"Mountain", "Road", "Hybrid", "Electric"}
  THEN bike_type ELSE "Road"

\* BikeFactory.create_bike: the class a stored label resolves to
create_bike(bike_type) ==
  IF bike_type \in {"Mountain", "Road", "Hybrid", "Electric"}
  THEN bike_type ELSE "Hybrid"

calculate_rental_cost(bike, hours) ==
  LET cls == create_bike(bike.bike_type) IN
  CASE cls = "Mountain" -> MountainCost(bike.hourly_rate, bike.daily_rate, hours)
    [] cls = "Road"     -> RoadCost(bike.hourly_rate, bike.daily_rate, hours)
    [] cls = "Hybrid"   -> HybridCost(bike.hourly_rate, bike.daily_rate, hours)
    [] cls = "Electric" -> ElectricCost(bike.hourly_rate, bike.daily_rate, hours)

\* ------------------------------------------------------------ SQL statements
\* mutant: the availability SELECT without "AND is_available = 1"
SelectBikeAnyFlag(d, bike_id) ==
  {b \in DOMAIN d.bikes : b = bike_id}

\* SELECT * FROM bikes WHERE id = ? AND is_available = 1
SelectAvailableBike(d, bike_id) ==
  {b \in DOMAIN d.bikes : b = bike_id /\ d.bikes[b].is_available}

\* INSERT INTO rentals (...): id is AUTOINCREMENT, the other columns default
InsertRental(d, customer_id, bike_id, rental_start, hours, cost) ==
  [d EXCEPT !.rentals = Append(@,
     [id |-> Len(@) + 1,
      customer_id |-> customer_id,
      bike_id |-> bike_id,
      rental_start |-> rental_start,
      rental_end |-> NULL,
      planned_duration_hours |-> hours,
      actual_duration |-> NULL,
      base_cost |-> cost,
      additional_charges |-> 0,
      total_cost |-> cost,
      status |-> "ACTIVE"])]

\* mutant: the availability UPDATE matches no row
SetAvailableNoRow(d, bike_id, flag) == d

\* UPDATE bikes SET is_available = ? WHERE id = ?
SetAvailable(d, bike_id, flag) ==
  [d EXCEPT !.bikes = [b \in DOMAIN @ |->
     IF b = bike_id THEN [@[b] EXCEPT !.is_available = flag] ELSE @[b]]]

\* mutant: the rental SELECT with its two parameters in the wrong order
SelectActiveRentalSwapped(d, rental_id, customer_id) ==
  {i \in DOMAIN d.rentals :
     /\ d.rentals[i].id = customer_id
     /\ d.rentals[i].customer_id = rental_id
     /\ d.rentals[i].status = "ACTIVE"
     /\ d.rentals[i].bike_id \in DOMAIN d.bikes}

\* mutant: the rental SELECT without "AND r.customer_id = ?"
SelectActiveRentalAnyCustomer(d, rental_id, customer_id) ==
  {i \in DOMAIN d.rentals :
     /\ d.rentals[i].id = rental_id
     /\ d.rentals[i].status = "ACTIVE"
     /\ d.rentals[i].bike_id \in DOMAIN d.bikes}

\* mutant: the rental SELECT without "AND r.status = 'ACTIVE'"
SelectRentalAnyStatus(d, rental_id, customer_id) ==
  {i \in DOMAIN d.rentals :
     /\ d.rentals[i].id = rental_id
     /\ d.rentals[i].customer_id = customer_id
     /\ d.rentals[i].bike_id \in DOMAIN d.bikes}

\* SELECT ... FROM rentals r JOIN bikes b ... WHERE r.id = ? AND
\* r.customer_id = ? AND r.status = 'ACTIVE'
SelectActiveRental(d, rental_id, customer_id) ==
  {i \in DOMAIN d.rentals :
     /\ d.rentals[i].id = rental_id
     /\ d.rentals[i].customer_id = customer_id
     /\ d.rentals[i].status = "ACTIVE"
     /\ d.rentals[i].bike_id \in DOMAIN d.bikes}

\* mutant: the closing UPDATE also overwrites base_cost with the final cost
UpdateRentalRebased(d, rental_id, rental_end, actual, charges, final_cost) ==
  [d EXCEPT !.rentals = [i \in DOMAIN @ |->
     IF @[i].id = rental_id
     THEN [@[i] EXCEPT !.rental_end = rental_end,
                       !.actual_duration = actual,
                       !.additional_charges = charges,
                       !.base_cost = final_cost,
                       !.total_cost = final_cost,
                       !.status = "COMPLETED"]
     ELSE @[i]]]

\* mutant: the closing UPDATE without "total_cost = ?"
UpdateRentalKeepTotal(d, rental_id, rental_end, actual, charges, final_cost) ==
  [d EXCEPT !.rentals = [i \in DOMAIN @ |->
     IF @[i].id = rental_id
     THEN [@[i] EXCEPT !.rental_end = rental_end,
                       !.actual_duration = actual,
                       !.additional_charges = charges,
                       !.status = "COMPLETED"]
     ELSE @[i]]]

\* mutant: the closing UPDATE without "actual_duration_hours = ?"
UpdateRentalNoDuration(d, rental_id, rental_end, actual, charges, final_cost) ==
  [d EXCEPT !.rentals = [i \in DOMAIN @ |->
     IF @[i].id = rental_id
     THEN [@[i] EXCEPT !.rental_end = rental_end,
                       !.additional_charges = charges,
                       !.total_cost = final_cost,
                       !.status = "COMPLETED"]
     ELSE @[i]]]

\* UPDATE rentals SET rental_end, actual_duration_hours, additional_charges,
\* total_cost, status = 'COMPLETED' WHERE id = ?
UpdateRentalOnReturn(d, rental_id, rental_end, actual, charges, final_cost) ==
  [d EXCEPT !.rentals = [i \in DOMAIN @ |->
     IF @[i].id = rental_id
     THEN [@[i] EXCEPT !.rental_end = rental_end,
                       !.actual_duration = actual,
                       !.additional_charges = charges,
                       !.total_cost = final_cost,
                       !.status = "COMPLETED"]
     ELSE @[i]]]

\* SELECT * FROM customers WHERE email = ?
SelectCustomer(d, email) ==
  {i \in DOMAIN d.customers : d.customers[i].email = email}

\* mutant: the email column without UNIQUE
EmailTakenNever(d, email) == FALSE

\* customers.email is UNIQUE: an INSERT of a stored email raises IntegrityError
EmailTaken(d, email) == SelectCustomer(d, email) # {}

\* INSERT INTO customers (name, email, phone)
InsertCustomer(d, name, email) ==
  [d EXCEPT !.customers = Append(@,
     [id |-> Len(@) + 1, name |-> name, email |-> email])]

\* sum of f over the rows S
RECURSIVE SumOver(_, _)
SumOver(f, S) ==
  IF S = {} THEN 0
  ELSE LET i == CHOOSE x \in S : TRUE IN f[i] + SumOver(f, S \ {i})

\* mutant: the revenue SELECT without WHERE status = "COMPLETED"
SelectSumTotalCostAll(d) ==
  LET rows == DOMAIN d.rentals IN
  IF rows = {} THEN NULL
  ELSE SumOver([i \in rows |-> d.rentals[i].total_cost], rows)

\* SELECT SUM(total_cost) FROM rentals WHERE status = "COMPLETED"
SelectSumTotalCost(d) ==
  LET rows == {i \in DOMAIN d.rentals : d.rentals[i].status = "COMPLETED"} IN
  IF rows = {} THEN NULL
  ELSE SumOver([i \in rows |-> d.rentals[i].total_cost], rows)

\* SELECT COUNT(*) FROM rentals
SelectCountRentals(d) == Cardinality(DOMAIN d.rentals)

\* SELECT COUNT(*) FROM rentals WHERE status = "ACTIVE"
SelectCountActive(d) ==
  Cardinality({i \in DOMAIN d.rentals : d.rentals[i].status = "ACTIVE"})

\* SELECT b.bike_type, COUNT(*) ... GROUP BY b.bike_type ORDER BY rental_count
\* DESC LIMIT 1: the rows the statement may return (any one of the most
\* rented types), none over no rental
SelectPopularBike(d) ==
  LET joined == {i \in DOMAIN d.rentals : d.rentals[i].bike_id \in DOMAIN d.bikes}
      type(i) == d.bikes[d.rentals[i].bike_id].bike_type
      rental_count(t) == Cardinality({i \in joined : type(i) = t})
      types == {type(i) : i \in joined}
  IN {t \in types : \A u \in types : rental_count(t) >= rental_count(u)}

\* SELECT AVG(actual_duration_hours) FROM rentals WHERE actual_duration_hours
\* IS NOT NULL, as the fraction num / den in ticks; den = 0 stands for NULL
SelectAvgDuration(d) ==
  LET rows == {i \in DOMAIN d.rentals : d.rentals[i].actual_duration # NULL} IN
  [num |-> SumOver([i \in rows |-> d.rentals[i].actual_duration], rows),
   den |-> Cardinality(rows)]

\* ------------------------------------------------------------ initial state
NoLocal ==
  [bike_id |-> 0, hours |-> 0, cost |-> 0, rental_id |-> 0,
   rental_start |-> 0, base_cost |-> 0, hourly_rate |-> 0,
   total_revenue |-> 0, total_rentals |-> 0, active_rentals |-> 0,
   popular_bike |-> "N/A", avg_duration |-> [num |-> 0, den |-> 1]]

\* DatabaseManager.__init__: the three tables, bikes seeded, all available
InitDb ==
  [bikes |-> [b \in ModelledBikes |->
                [bike_type |-> SampleBikes[b].bike_type,
                 hourly_rate |-> SampleBikes[b].hourly_rate,
                 daily_rate |-> SampleBikes[b].daily_rate,
                 is_available |-> TRUE]],
   customers |-> << >>,
   rentals |-> << >>]

Init ==
  /\ db = InitDb
  /\ reserved = NoSession
  /\ uncommitted = InitDb
  /\ current_customer = [s \in Sessions |-> None]
  /\ pc = [s \in Sessions |-> "idle"]
  /\ local = [s \in Sessions |-> NoLocal]
  /\ last = "none"
  /\ now = 0

\* a database file whose bikes table holds one row, of any kind (the sample
\* rows are inserted only into an empty table)
InitInventory ==
  /\ \E row \in InventoryRows :
       db = [bikes |-> [b \in {1} |->
                         [bike_type |-> row.bike_type,
                          hourly_rate |-> row.hourly_rate,
                          daily_rate |-> row.daily_rate,
                          is_available |-> TRUE]],
             customers |-> << >>,
             rentals |-> << >>]
  /\ reserved = NoSession
  /\ uncommitted = db
  /\ current_customer = [s \in Sessions |-> None]
  /\ pc = [s \in Sessions |-> "idle"]
  /\ local = [s \in Sessions |-> NoLocal]
  /\ last = "none"
  /\ now = 0

\* ------------------------------------------------------------ clock
\* datetime.now(): any time not before the latest reading, up to the cap
Clock == now..MaxTime

\* ------------------------------------------------------------ transactions
\* mutant: a connection in autocommit mode, every statement's write is in
\* the file at once
BeginWriteAutocommit(s, image) ==
  /\ db' = image
  /\ uncommitted' = image
  /\ reserved' = s

\* the first INSERT/UPDATE of a connection opens its transaction: it takes
\* the lock, and the write goes to the connection's own image of the file
BeginWrite(s, image) ==
  /\ db' = db
  /\ uncommitted' = image
  /\ reserved' = s

\* conn.commit(): the writer's image becomes the database file
Commit(s) ==
  /\ db' = uncommitted
  /\ uncommitted' = uncommitted
  /\ reserved' = NoSession

\* mutant: the except branch commits instead of rolling back
RollbackCommits(s) ==
  /\ db' = IF reserved = s THEN uncommitted ELSE db
  /\ uncommitted' = uncommitted
  /\ reserved' = IF reserved = s THEN NoSession ELSE reserved

\* conn.rollback() / conn.close(): the connection's own open transaction, if
\* it has one, is dropped
Rollback(s) ==
  /\ db' = db
  /\ uncommitted' = IF reserved = s THEN db ELSE uncommitted
  /\ reserved' = IF reserved = s THEN NoSession ELSE reserved

\* the handler returns: its locals are gone, its outcome is reported
Finish(s, outcome) ==
  /\ pc' = [pc EXCEPT ![s] = "done"]
  /\ local' = [local EXCEPT ![s] = NoLocal]
  /\ last' = outcome

\* main: the outcome has been shown, the menu is up for the next call
Menu(s) ==
  /\ pc[s] = "done"
  /\ pc' = [pc EXCEPT ![s] = "idle"]
  /\ last' = "none"
  /\ UNCHANGED <<db, reserved, uncommitted, current_customer, local, now>>

\* ------------------------------------------------------------ register / login
\* register_customer: the INSERT (IntegrityError on a known email; a locked
\* file raises OperationalError, which the handler does not catch)
RegisterInsert(s, name, email) ==
  /\ pc[s] = "idle"
  /\ IF reserved # NoSession
     THEN /\ Finish(s, "register:raise")
          /\ UNCHANGED <<db, reserved, uncommitted>>
     ELSE IF EmailTaken(db, email)
     THEN /\ Finish(s, "register:duplicate")
          /\ UNCHANGED <<db, reserved, uncommitted>>
     ELSE /\ BeginWrite(s, InsertCustomer(db, name, email))
          /\ pc' = [pc EXCEPT ![s] = "register_commit"]
          /\ UNCHANGED <<local, last>>
  /\ UNCHANGED <<current_customer, now>>

\* register_customer: conn.commit(), return True
RegisterCommit(s) ==
  /\ pc[s] = "register_commit"
  /\ Commit(s)
  /\ Finish(s, "register:ok")
  /\ UNCHANGED <<current_customer, now>>

\* register_customer: commit raises; finally: conn.close()
RegisterError(s) ==
  /\ pc[s] = "register_commit"
  /\ Rollback(s)
  /\ Finish(s, "register:raise")
  /\ UNCHANGED <<current_customer, now>>

\* mutant: the login check of rent_bike / return_bike lets everyone through
NotLoggedInNever(s) == FALSE

\* rent_bike / return_bike: if not self.current_customer
NotLoggedIn(s) == current_customer[s] = None

\* login_customer
LoginCustomer(s, email) ==
  /\ pc[s] = "idle"
  /\ LET rows == SelectCustomer(db, email) IN
     IF rows # {}
     THEN /\ current_customer' =
               [current_customer EXCEPT ![s] = db.customers[CHOOSE i \in rows : TRUE].id]
          /\ Finish(s, "login:ok")
     ELSE /\ Finish(s, "login:notfound")
          /\ UNCHANGED current_customer
  /\ UNCHANGED <<db, reserved, uncommitted, now>>

\* ------------------------------------------------------------ rent_bike
\* mutant: the duration check lets zero hours through
DurationRejectedBelowZero(duration_hours) == duration_hours < 0

\* rent_bike: if duration_hours <= 0
DurationRejected(duration_hours) == duration_hours <= 0

\* rent_bike up to the availability SELECT
RentSelect(s, bike_id, duration_hours) ==
  /\ pc[s] = "idle"
  /\ IF NotLoggedIn(s)
     THEN Finish(s, "rent:login")
     ELSE IF DurationRejected(duration_hours)
     THEN Finish(s, "rent:duration")
     ELSE IF SelectAvailableBike(db, bike_id) = {}
     THEN Finish(s, "rent:unavailable")
     ELSE /\ pc' = [pc EXCEPT ![s] = "rent_insert"]
          /\ local' = [local EXCEPT ![s] =
               [NoLocal EXCEPT !.bike_id = bike_id,
                               !.hours = duration_hours,
                               !.cost = calculate_rental_cost(db.bikes[bike_id],
                                                              duration_hours)]]
          /\ UNCHANGED last
  /\ UNCHANGED <<db, reserved, uncommitted, current_customer, now>>

\* rent_bike: INSERT INTO rentals (opens the transaction)
RentInsert(s, clock) ==
  /\ pc[s] = "rent_insert"
  /\ reserved = NoSession
  /\ Len(db.rentals) < MaxRentals
  /\ \E rental_start \in clock :
       /\ now' = rental_start
       /\ BeginWrite(s, InsertRental(db, current_customer[s], local[s].bike_id,
                                     rental_start, local[s].hours, local[s].cost))
  /\ pc' = [pc EXCEPT ![s] = "rent_update"]
  /\ UNCHANGED <<current_customer, local, last>>

\* rent_bike: UPDATE bikes SET is_available = 0
RentUpdate(s) ==
  /\ pc[s] = "rent_update"
  /\ uncommitted' = SetAvailable(uncommitted, local[s].bike_id, FALSE)
  /\ pc' = [pc EXCEPT ![s] = "rent_commit"]
  /\ UNCHANGED <<db, reserved, current_customer, local, last, now>>

\* rent_bike: conn.commit(), return True
RentCommit(s) ==
  /\ pc[s] = "rent_commit"
  /\ Commit(s)
  /\ Finish(s, "rent:ok")
  /\ UNCHANGED <<current_customer, now>>

\* rent_bike: a statement or the commit raises; except: conn.rollback()
RentError(s) ==
  /\ pc[s] \in {"rent_insert", "rent_update", "rent_commit"}
  /\ Rollback(s)
  /\ Finish(s, "rent:error")
  /\ UNCHANGED <<current_customer, now>>

\* ------------------------------------------------------------ return_bike
\* mutant: overtime billed at the plain hourly rate, without the 50% penalty
additional_charges_plain(actual_duration, planned_duration, hourly_rate) ==
  IF actual_duration > planned_duration * TicksPerHour
  THEN ((actual_duration - planned_duration * TicksPerHour) * hourly_rate)
         \div TicksPerHour
  ELSE 0

\* overtime penalty of return_bike, in cents: 1.5 x hourly rate per hour over
additional_charges_new(actual_duration, planned_duration, hourly_rate) ==
  IF actual_duration > planned_duration * TicksPerHour
  THEN ((actual_duration - planned_duration * TicksPerHour) * hourly_rate * 3)
         \div (2 * TicksPerHour)
  ELSE 0

\* return_bike up to the SELECT of the caller's active rental
ReturnSelect(s, rental_id) ==
  /\ pc[s] = "idle"
  /\ IF NotLoggedIn(s)
     THEN Finish(s, "return:login")
     ELSE LET rows == SelectActiveRental(db, rental_id, current_customer[s]) IN
       IF rows = {}
       THEN Finish(s, "return:notfound")
       ELSE LET r == db.rentals[CHOOSE i \in rows : TRUE] IN
            /\ pc' = [pc EXCEPT ![s] = "return_rental"]
            /\ local' = [local EXCEPT ![s] =
                 [NoLocal EXCEPT !.rental_id = rental_id,
                                 !.bike_id = r.bike_id,
                                 !.rental_start = r.rental_start,
                                 !.hours = r.planned_duration_hours,
                                 !.base_cost = r.base_cost,
                                 !.hourly_rate = db.bikes[r.bike_id].hourly_rate]]
            /\ UNCHANGED last
  /\ UNCHANGED <<db, reserved, uncommitted, current_customer, now>>

\* return_bike: duration, charges and UPDATE rentals (opens the transaction)
ReturnRental(s, clock) ==
  /\ pc[s] = "return_rental"
  /\ reserved = NoSession
  /\ \E rental_end_time \in clock :
       LET actual_duration == rental_end_time - local[s].rental_start
           charges == additional_charges_new(actual_duration, local[s].hours,
                                             local[s].hourly_rate)
           final_cost == local[s].base_cost + charges
       IN /\ now' = rental_end_time
          /\ BeginWrite(s, UpdateRentalOnReturn(db, local[s].rental_id,
                              rental_end_time, actual_duration, charges, final_cost))
  /\ pc' = [pc EXCEPT ![s] = "return_bike"]
  /\ UNCHANGED <<current_customer, local, last>>

\* return_bike: UPDATE bikes SET is_available = 1
ReturnBikeFlag(s) ==
  /\ pc[s] = "return_bike"
  /\ uncommitted' = SetAvailable(uncommitted, local[s].bike_id, TRUE)
  /\ pc' = [pc EXCEPT ![s] = "return_commit"]
  /\ UNCHANGED <<db, reserved, current_customer, local, last, now>>

\* return_bike: conn.commit(), return True
ReturnCommit(s) ==
  /\ pc[s] = "return_commit"
  /\ Commit(s)
  /\ Finish(s, "return:ok")
  /\ UNCHANGED <<current_customer, now>>

\* return_bike: a statement or the commit raises; except: conn.rollback()
ReturnError(s) ==
  /\ pc[s] \in {"return_rental", "return_bike", "return_commit"}
  /\ Rollback(s)
  /\ Finish(s, "return:error")
  /\ UNCHANGED <<current_customer, now>>

\* ------------------------------------------------------------ report
\* generate_business_report: the five SELECTs, with "or 0" for a NULL sum or
\* average and N/A for no popular type
ReportSelect(s) ==
  /\ pc[s] = "idle"
  /\ \E popular \in (IF SelectPopularBike(db) = {} THEN {"N/A"}
                                                     ELSE SelectPopularBike(db)) :
       local' = [local EXCEPT ![s] =
         [NoLocal EXCEPT
            !.total_revenue = IF SelectSumTotalCost(db) = NULL THEN 0
                              ELSE SelectSumTotalCost(db),
            !.total_rentals = SelectCountRentals(db),
            !.active_rentals = SelectCountActive(db),
            !.popular_bike = popular,
            !.avg_duration = IF SelectAvgDuration(db).den = 0
                             THEN [num |-> 0, den |-> 1]
                             ELSE SelectAvgDuration(db)]]
  /\ pc' = [pc EXCEPT ![s] = "report_print"]
  /\ UNCHANGED <<db, reserved, uncommitted, current_customer, last, now>>

\* generate_business_report: conn.close() and the printout
ReportPrint(s) ==
  /\ pc[s] = "report_print"
  /\ Finish(s, "report:ok")
  /\ UNCHANGED <<db, reserved, uncommitted, current_customer, now>>

\* ------------------------------------------------------------ pricing calls
\* bike.calculate_rental_cost(hours) on the Bike object BikeFactory builds from
\* a row of the bikes table
CalculateCost(s, bike_id, hours) ==
  /\ pc[s] = "idle"
  /\ bike_id \in DOMAIN db.bikes
  /\ pc' = [pc EXCEPT ![s] = "cost_return"]
  /\ local' = [local EXCEPT ![s] =
       [NoLocal EXCEPT !.bike_id = bike_id,
                       !.hours = hours,
                       !.cost = calculate_rental_cost(db.bikes[bike_id], hours)]]
  /\ UNCHANGED <<db, reserved, uncommitted, current_customer, last, now>>

\* the caller has the cost
CostReturned(s) ==
  /\ pc[s] = "cost_return"
  /\ pc' = [pc EXCEPT ![s] = "idle"]
  /\ local' = [local EXCEPT ![s] = NoLocal]
  /\ UNCHANGED <<db, reserved, uncommitted, current_customer, last, now>>

\* ------------------------------------------------------------ specifications
\* main(): one BikeRentalSystem object, its calls executed one at a time;
\* datetime.now() returns any time not before the latest reading
Next ==
  \E s \in {MainSession} :
    \/ \E name \in Names, email \in Emails : RegisterInsert(s, name, email)
    \/ RegisterCommit(s)
    \/ RegisterError(s)
    \/ \E email \in Emails : LoginCustomer(s, email)
    \/ \E bike_id \in BikeInputs, hours \in DurationInputs : RentSelect(s, bike_id, hours)
    \/ RentInsert(s, Clock)
    \/ RentUpdate(s)
    \/ RentCommit(s)
    \/ RentError(s)
    \/ \E rental_id \in RentalInputs : ReturnSelect(s, rental_id)
    \/ ReturnRental(s, Clock)
    \/ ReturnBikeFlag(s)
    \/ ReturnCommit(s)
    \/ ReturnError(s)
    \/ ReportSelect(s)
    \/ ReportPrint(s)
    \/ Menu(s)

Spec == Init /\ [][Next]_vars

\* Two BikeRentalSystem objects on the same database file, their calls
\* interleaved statement by statement.  The calls race within one tick of the
\* clock: every reading of datetime.now() returns the same time.  The report
\* and the pricing calls write nothing and are left out.
NextConc ==
  \E s \in Sessions :
    \/ \E name \in Names, email \in Emails : RegisterInsert(s, name, email)
    \/ RegisterCommit(s)
    \/ RegisterError(s)
    \/ \E email \in Emails : LoginCustomer(s, email)
    \/ \E bike_id \in BikeInputs, hours \in DurationInputs : RentSelect(s, bike_id, hours)
    \/ RentInsert(s, {now})
    \/ RentUpdate(s)
    \/ RentCommit(s)
    \/ RentError(s)
    \/ \E rental_id \in RentalInputs : ReturnSelect(s, rental_id)
    \/ ReturnRental(s, {now})
    \/ ReturnBikeFlag(s)
    \/ ReturnCommit(s)
    \/ ReturnError(s)
    \/ Menu(s)

SpecConc == Init /\ [][NextConc]_vars

\* The pricing classes used on their own: a cost is asked for any row and any
\* number of hours.
NextCost ==
  \E s \in {MainSession} :
    \/ \E bike_id \in ModelledBikes, hours \in HoursInputs :
         CalculateCost(s, bike_id, hours)
    \/ CostReturned(s)

SpecCost == InitInventory /\ [][NextCost]_vars

\* main() on a database file whose bikes table holds one row of any kind;
\* rentals of up to 30 hours, every reading of the clock the same; the report
\* writes nothing and is left out
NextInventory ==
  \E s \in {MainSession} :
    \/ \E name \in Names, email \in Emails : RegisterInsert(s, name, email)
    \/ RegisterCommit(s)
    \/ RegisterError(s)
    \/ \E email \in Emails : LoginCustomer(s, email)
    \/ \E bike_id \in BikeInputs, hours \in LongDurationInputs :
         RentSelect(s, bike_id, hours)
    \/ RentInsert(s, {now})
    \/ RentUpdate(s)
    \/ RentCommit(s)
    \/ RentError(s)
    \/ \E rental_id \in RentalInputs : ReturnSelect(s, rental_id)
    \/ ReturnRental(s, {now})
    \/ ReturnBikeFlag(s)
    \/ ReturnCommit(s)
    \/ ReturnError(s)
    \/ Menu(s)

SpecInventory == InitInventory /\ [][NextInventory]_vars

\* ------------------------------------------------------------ properties
\* the rentals of bike b that are active in database d
ActiveRentals(d, b) ==
  {i \in DOMAIN d.rentals :
     d.rentals[i].bike_id = b /\ d.rentals[i].status = "ACTIVE"}

CompletedRentals(d, b) ==
  {i \in DOMAIN d.rentals :
     d.rentals[i].bike_id = b /\ d.rentals[i].status = "COMPLETED"}

\* C1: with calls executed one at a time, a bike's availability flag is true
\* exactly when no rental of that bike is active; right after a successful
\* rent_bike the rented bike (the newest rental's) is flagged unavailable, and
\* right after a successful return_bike a rental closed at the latest clock
\* reading has its bike flagged available.
C1_AvailableIffNoActiveRental ==
  /\ \A b \in DOMAIN db.bikes :
       db.bikes[b].is_available <=> (ActiveRentals(db, b) = {})
  /\ last = "rent:ok" =>
       ~db.bikes[db.rentals[Len(db.rentals)].bike_id].is_available
  /\ last = "return:ok" =>
       \E i \in DOMAIN db.rentals :
         /\ db.rentals[i].status = "COMPLETED"
         /\ db.rentals[i].rental_end = now
         /\ db.bikes[db.rentals[i].bike_id].is_available

\* C1 witness: a bike that was rented and returned is available again while
\* another bike is out on an active rental
C1_Witness ==
  \E b, c \in DOMAIN db.bikes :
    /\ CompletedRentals(db, b) # {} /\ db.bikes[b].is_available
    /\ ActiveRentals(db, c) # {} /\ ~db.bikes[c].is_available

\* C2: with calls executed one at a time, no bike has more than one active
\* rental at the same time.
C2_AtMostOneActiveRental ==
  \A b \in DOMAIN db.bikes : Cardinality(ActiveRentals(db, b)) <= 1

\* C2 witness: a bike rented a second time, after its first rental was closed
C2_Witness ==
  \E b \in DOMAIN db.bikes :
    CompletedRentals(db, b) # {} /\ Cardinality(ActiveRentals(db, b)) = 1

\* session s finishes a call in this step, reporting outcome
Reports(s, outcome) ==
  pc[s] # "done" /\ pc'[s] = "done" /\ last' = outcome

\* C3: when two rent_bike calls race for the same available bike, one wins
\* and the other fails: a rent_bike that reports success leaves its bike with
\* exactly one active rental, its own.
C3_OneOpenWins ==
  [][\A s \in Sessions :
       Reports(s, "rent:ok") =>
         Cardinality(ActiveRentals(db', local[s].bike_id)) = 1]_vars

\* C4: a rental is written once, at its return: a return_bike that reports
\* success closes a rental that is still active in the database, and leaves
\* no active rental on the bike it flags available.
C4_OneCloseWins ==
  [][\A s \in Sessions :
       Reports(s, "return:ok") =>
         /\ \E i \in DOMAIN db.rentals :
              /\ db.rentals[i].id = local[s].rental_id
              /\ db.rentals[i].status = "ACTIVE"
         /\ ActiveRentals(db', local[s].bike_id) = {}]_vars

\* C5: rent_bike on a bike that does not exist or is flagged unavailable
\* fails at once and leaves the bikes, rentals and customers unchanged.
C5_UnavailableOpenFails ==
  [][\A s \in Sessions, b \in BikeInputs, h \in DurationInputs :
       ( /\ RentSelect(s, b, h)
         /\ (b \notin DOMAIN db.bikes \/ ~db.bikes[b].is_available) )
       => /\ pc'[s] = "done"
          /\ last' \in {"rent:login", "rent:duration", "rent:unavailable"}
          /\ db' = db
          /\ uncommitted' = uncommitted]_vars

\* C5 witness: a logged-in customer was refused a bike that is rented out
C5_Witness ==
  /\ last = "rent:unavailable"
  /\ current_customer[MainSession] # None
  /\ \E b \in DOMAIN db.bikes : ~db.bikes[b].is_available

\* the rental with this id exists, belongs to the customer and is active
OwnActiveRental(d, rental_id, customer_id) ==
  \E i \in DOMAIN d.rentals :
    /\ d.rentals[i].id = rental_id
    /\ d.rentals[i].customer_id = customer_id
    /\ d.rentals[i].status = "ACTIVE"

\* C6: return_bike gets past its check, and so can succeed, only on an
\* existing, active rental of the calling customer; on any other rental id it
\* fails at once and leaves the rentals and the availability flags unchanged.
C6_CloseNeedsOwnActiveRental ==
  [][\A s \in Sessions :
       /\ \A r \in RentalInputs :
            ( /\ ReturnSelect(s, r)
              /\ ~OwnActiveRental(db, r, current_customer[s]) )
            => /\ pc'[s] = "done"
               /\ last' \in {"return:login", "return:notfound"}
               /\ db' = db
               /\ uncommitted' = uncommitted
       /\ (pc[s] = "idle" /\ pc'[s] = "return_rental") =>
            OwnActiveRental(db, local'[s].rental_id, current_customer[s])
       /\ Reports(s, "return:ok") => pc[s] = "return_commit"]_vars

\* C6 witness: a customer was refused a return while the only rentals are
\* another customer's active one and a completed one
C6_Witness ==
  /\ last = "return:notfound"
  /\ current_customer[MainSession] # None
  /\ \E i \in DOMAIN db.rentals :
       /\ db.rentals[i].status = "ACTIVE"
       /\ db.rentals[i].customer_id # current_customer[MainSession]
  /\ \E i \in DOMAIN db.rentals : db.rentals[i].status = "COMPLETED"

\* C7: every rental goes none -> active -> completed: a record is created
\* active, the only change ever made to a record is closing an active one,
\* a completed record is never changed again, and no record is deleted.
C7_RentalLifecycle ==
  [][/\ Len(db'.rentals) >= Len(db.rentals)
     /\ \A i \in DOMAIN db'.rentals :
          IF i \in DOMAIN db.rentals
          THEN \/ db'.rentals[i] = db.rentals[i]
               \/ /\ db.rentals[i].status = "ACTIVE"
                  /\ db'.rentals[i].status = "COMPLETED"
                  /\ db'.rentals[i].id = db.rentals[i].id
          ELSE db'.rentals[i].status = "ACTIVE"]_vars

\* C7 witness: a closed rental stays completed while its bike is out again
\* under a new record
C7_Witness ==
  \E i, j \in DOMAIN db.rentals :
    /\ i < j
    /\ db.rentals[i].bike_id = db.rentals[j].bike_id
    /\ db.rentals[i].status = "COMPLETED"
    /\ db.rentals[j].status = "ACTIVE"
    /\ db.rentals[j].rental_start > db.rentals[i].rental_end

\* C8: every rental record has total cost = base cost + additional charges,
\* and no additional charges while it is active.
C8_TotalIsBasePlusCharges ==
  \A i \in DOMAIN db.rentals :
    /\ db.rentals[i].total_cost =
         db.rentals[i].base_cost + db.rentals[i].additional_charges
    /\ db.rentals[i].status = "ACTIVE" => db.rentals[i].additional_charges = 0

\* C8 witness: a rental closed late, with an overtime charge on top of its base
C8_Witness ==
  \E i \in DOMAIN db.rentals :
    /\ db.rentals[i].status = "COMPLETED"
    /\ db.rentals[i].additional_charges > 0
    /\ db.rentals[i].total_cost > db.rentals[i].base_cost

\* C9: a rental's end timestamp and its actual duration are NULL exactly
\* while it is active; a completed rental has both.
C9_EndAndDurationSetOnClose ==
  \A i \in DOMAIN db.rentals :
    /\ (db.rentals[i].rental_end = NULL) <=> (db.rentals[i].status = "ACTIVE")
    /\ (db.rentals[i].actual_duration = NULL) <=> (db.rentals[i].status = "ACTIVE")

\* C9 witness: an active rental without, next to a completed rental with, an
\* end timestamp and a duration
C9_Witness ==
  \E i, j \in DOMAIN db.rentals :
    /\ db.rentals[i].status = "ACTIVE" /\ db.rentals[i].rental_end = NULL
    /\ db.rentals[j].status = "COMPLETED"
    /\ db.rentals[j].rental_end # NULL /\ db.rentals[j].actual_duration # NULL

\* C10: a rent_bike or return_bike that fails with a storage error, at any
\* statement or at the commit, leaves the database as it was before the call:
\* the failing step changes nothing, releases the transaction with none of
\* its writes left, and only a commit ever changes the database.
C10_FailureRollsBack ==
  [][/\ \A s \in Sessions :
          (Reports(s, "rent:error") \/ Reports(s, "return:error"))
          => /\ db' = db
             /\ reserved' = NoSession
             /\ uncommitted' = db
     /\ db' # db =>
          \E s \in Sessions :
            pc[s] \in {"rent_commit", "return_commit", "register_commit"}
              /\ pc'[s] = "done"]_vars

\* C10 witness: a rent_bike failed after its INSERT had read the clock, and
\* the rentals table is still empty
C10_Witness ==
  /\ last = "rent:error"
  /\ now > 0
  /\ db.rentals = << >>
  /\ \A b \in DOMAIN db.bikes : db.bikes[b].is_available

\* C11: rent_bike with planned hours <= 0 fails at once, with the same outcome
\* whatever the bike asked for and its availability, and leaves the bikes,
\* rentals and customers, the lock and the open transaction untouched.
C11_NonPositiveHoursOpenFails ==
  [][\A s \in Sessions, b \in BikeInputs, h \in DurationInputs :
       (RentSelect(s, b, h) /\ h <= 0)
       => /\ pc'[s] = "done"
          /\ last' = IF current_customer[s] = None THEN "rent:login"
                                                   ELSE "rent:duration"
          /\ db' = db
          /\ uncommitted' = uncommitted
          /\ reserved' = reserved]_vars

\* C11 witness: a logged-in customer was refused a zero-hour rental while one
\* bike is rented out and another is available
C11_Witness ==
  /\ last = "rent:duration"
  /\ current_customer[MainSession] # None
  /\ \E b \in DOMAIN db.bikes : ~db.bikes[b].is_available
  /\ \E b \in DOMAIN db.bikes : db.bikes[b].is_available

\* C12: a completed rental's actual duration is its end minus its start, and
\* its additional charges are max(0, actual - planned) x 1.5 x the hourly
\* rate of its bike: zero, with total cost = base cost, when it was returned
\* within the planned hours, and otherwise exactly that charge, with total
\* cost = base cost + charge.
C12_OvertimeCharge ==
  \A i \in DOMAIN db.rentals :
    db.rentals[i].status = "COMPLETED" =>
      LET r == db.rentals[i]
          rate == db.bikes[r.bike_id].hourly_rate
          over == r.actual_duration - r.planned_duration_hours * TicksPerHour
      IN /\ r.actual_duration = r.rental_end - r.rental_start
         /\ IF over <= 0
            THEN r.additional_charges = 0 /\ r.total_cost = r.base_cost
            ELSE /\ 2 * TicksPerHour * r.additional_charges = 3 * over * rate
                 /\ r.total_cost = r.base_cost + r.additional_charges

\* C12 witness: one rental returned late and charged, another returned within
\* its planned hours and not charged
C12_Witness ==
  \E i, j \in DOMAIN db.rentals :
    /\ db.rentals[i].status = "COMPLETED"
    /\ db.rentals[i].actual_duration >
          db.rentals[i].planned_duration_hours * TicksPerHour
    /\ db.rentals[i].additional_charges > 0
    /\ db.rentals[j].status = "COMPLETED"
    /\ db.rentals[j].actual_duration <=
          db.rentals[j].planned_duration_hours * TicksPerHour
    /\ db.rentals[j].additional_charges = 0

\* the categories' pricing table: threshold in hours, price of a partial-day
\* hour in tenths of the hourly rate, surcharge per hour in cents
Threshold(category) ==
  CASE category = "Mountain" -> 4
    [] category = "Road"     -> 3
    [] category = "Hybrid"   -> 6
    [] category = "Electric" -> 8

FactorTenths(category) ==
  CASE category = "Mountain" -> 8
    [] category = "Road"     -> 10
    [] category = "Hybrid"   -> 9
    [] category = "Electric" -> 10

SurchargePerHour(category) == IF category = "Electric" THEN 200 ELSE 0

\* cost c is exactly the piecewise formula of the category for these rates
\* and hours
IsPiecewiseCost(c, category, hourlyRate, dailyRate, hours) ==
  IF hours <= Threshold(category)
  THEN c = hours * hourlyRate + hours * SurchargePerHour(category)
  ELSE 10 * c = 10 * (hours \div 24) * dailyRate
                + (hours % 24) * hourlyRate * FactorTenths(category)
                + 10 * hours * SurchargePerHour(category)

\* C13: for every category and every positive number of hours the cost
\* function returns the piecewise formula: hours x hourly rate up to the
\* category's threshold, else whole days x daily rate + remaining hours x
\* hourly rate x factor, plus 2.00 per hour for Electric; Mountain at 15/80
\* for 30 hours costs 152.00.
C13_PiecewiseCost ==
  \A s \in Sessions :
    (pc[s] = "cost_return" /\ local[s].hours > 0) =>
      LET bike == db.bikes[local[s].bike_id] IN
      /\ bike.bike_type \in {"Mountain", "Road", "Hybrid", "Electric"} =>
           IsPiecewiseCost(local[s].cost, bike.bike_type, bike.hourly_rate,
                           bike.daily_rate, local[s].hours)
      /\ ( /\ bike.bike_type = "Mountain"
           /\ bike.hourly_rate = 1500 /\ bike.daily_rate = 8000
           /\ local[s].hours = 30 ) => local[s].cost = 15200

\* C13 witness: the cost of the Mountain bike at 15/80 for 30 hours is back
C13_Witness ==
  /\ pc[MainSession] = "cost_return"
  /\ db.bikes[local[MainSession].bike_id].bike_type = "Mountain"
  /\ db.bikes[local[MainSession].bike_id].hourly_rate = 1500
  /\ local[MainSession].hours = 30
  /\ local[MainSession].cost = 15200

\* C14: a cost function called with zero or negative hours fails instead of
\* returning a cost: no cost ever comes back for hours <= 0.
C14_NonPositiveHoursRaise ==
  \A s \in Sessions : pc[s] = "cost_return" => local[s].hours > 0

\* C15: register_customer with an email that is already stored fails and
\* leaves the customers, bikes and rentals as they were, and after every step
\* no two customers share an email.
C15_DuplicateEmailRejected ==
  [][/\ \A s \in Sessions, name \in Names, email \in Emails :
          ( /\ RegisterInsert(s, name, email)
            /\ \E i \in DOMAIN db.customers : db.customers[i].email = email )
          => /\ pc'[s] = "done"
             /\ last' \in {"register:duplicate", "register:raise"}
             /\ db' = db
             /\ uncommitted' = uncommitted
     /\ \A i, j \in DOMAIN db'.customers :
          db'.customers[i].email = db'.customers[j].email => i = j]_vars

\* C15 witness: a registration was refused as a duplicate while two customers
\* and a rental are on file
C15_Witness ==
  /\ last = "register:duplicate"
  /\ Len(db.customers) = 2
  /\ db.customers[1].email # db.customers[2].email
  /\ db.rentals # << >>

\* C16: a successful return_bike leaves the closed rental's id, base cost,
\* customer, bike, start and planned duration as they were, changes no other
\* rental and no customer, adds or removes no record, and changes nothing of
\* any bike but the availability flag of the returned one.
C16_CloseFrame ==
  [][\A s \in Sessions :
       Reports(s, "return:ok") =>
         /\ DOMAIN db'.rentals = DOMAIN db.rentals
         /\ \A i \in DOMAIN db.rentals :
              IF db.rentals[i].id = local[s].rental_id
              THEN /\ db'.rentals[i].id = db.rentals[i].id
                   /\ db'.rentals[i].base_cost = db.rentals[i].base_cost
                   /\ db'.rentals[i].customer_id = db.rentals[i].customer_id
                   /\ db'.rentals[i].bike_id = db.rentals[i].bike_id
                   /\ db'.rentals[i].rental_start = db.rentals[i].rental_start
                   /\ db'.rentals[i].planned_duration_hours =
                        db.rentals[i].planned_duration_hours
              ELSE db'.rentals[i] = db.rentals[i]
         /\ db'.customers = db.customers
         /\ DOMAIN db'.bikes = DOMAIN db.bikes
         /\ \A b \in DOMAIN db.bikes :
              /\ db'.bikes[b].bike_type = db.bikes[b].bike_type
              /\ db'.bikes[b].hourly_rate = db.bikes[b].hourly_rate
              /\ db'.bikes[b].daily_rate = db.bikes[b].daily_rate
              /\ b # local[s].bike_id =>
                   db'.bikes[b].is_available = db.bikes[b].is_available]_vars

\* C16 witness: a rental was just closed late, its total above its base cost,
\* while another bike is out on an active rental
C16_Witness ==
  /\ last = "return:ok"
  /\ \E i, j \in DOMAIN db.rentals :
       /\ db.rentals[i].status = "COMPLETED"
       /\ db.rentals[i].rental_end = now
       /\ db.rentals[i].total_cost > db.rentals[i].base_cost
       /\ db.rentals[j].status = "ACTIVE"
       /\ ~db.bikes[db.rentals[j].bike_id].is_available

\* C17: no other session can read a half-done rent_bike or return_bike: a
\* rental becomes visible in the database file together with its bike's flag
\* set to unavailable, and its completion becomes visible together with the
\* flag set back to available.
C17_NoIntermediateState ==
  [][\A i \in DOMAIN db'.rentals :
       /\ (i \notin DOMAIN db.rentals /\ db'.rentals[i].status = "ACTIVE")
            => ~db'.bikes[db'.rentals[i].bike_id].is_available
       /\ ( /\ i \in DOMAIN db.rentals
            /\ db.rentals[i].status = "ACTIVE"
            /\ db'.rentals[i].status = "COMPLETED" )
            => db'.bikes[db'.rentals[i].bike_id].is_available]_vars

\* C17 witness: one session is between the two writes of its return_bike (the
\* rental completed, the bike not yet flagged available) while the other is at
\* the menu; in the file the rental is still active and its bike unavailable
C17_Witness ==
  \E s, t \in Sessions :
    /\ s # t
    /\ pc[s] = "return_bike"
    /\ pc[t] = "idle"
    /\ \E i \in DOMAIN db.rentals :
         /\ db.rentals[i].id = local[s].rental_id
         /\ db.rentals[i].status = "ACTIVE"
         /\ uncommitted.rentals[i].status = "COMPLETED"
         /\ ~uncommitted.bikes[local[s].bike_id].is_available
         /\ ~db.bikes[local[s].bike_id].is_available

\* the label is none of the four BikeFactory knows
UnknownLabel(bike_type) ==
  bike_type \notin {"Mountain", "Road", "Hybrid", "Electric"}

\* C18: rent_bike on an available bike whose label is none of Mountain, Road,
\* Hybrid, Electric, by a logged-in customer for a positive number of hours,
\* passes its checks with the Hybrid price (hourly up to 6 hours, then whole
\* days plus remaining hours at 90%), and every rental of such a bike is on
\* file with that price as its base cost.
C18_UnknownLabelIsHybrid ==
  [][/\ \A s \in Sessions, b \in BikeInputs, h \in LongDurationInputs :
          ( /\ RentSelect(s, b, h)
            /\ current_customer[s] # None
            /\ h > 0
            /\ b \in DOMAIN db.bikes
            /\ db.bikes[b].is_available
            /\ UnknownLabel(db.bikes[b].bike_type) )
          => /\ pc'[s] = "rent_insert"
             /\ IsPiecewiseCost(local'[s].cost, "Hybrid", db.bikes[b].hourly_rate,
                                 db.bikes[b].daily_rate, h)
     /\ \A i \in DOMAIN db'.rentals :
          LET bike == db'.bikes[db'.rentals[i].bike_id] IN
          UnknownLabel(bike.bike_type) =>
            IsPiecewiseCost(db'.rentals[i].base_cost, "Hybrid", bike.hourly_rate,
                            bike.daily_rate, db'.rentals[i].planned_duration_hours)]_vars

\* C18 witness: a 30-hour rental of a bike with an unknown label was just
\* confirmed
C18_Witness ==
  /\ last = "rent:ok"
  /\ \E i \in DOMAIN db.rentals :
       /\ UnknownLabel(db.bikes[db.rentals[i].bike_id].bike_type)
       /\ db.rentals[i].status = "ACTIVE"
       /\ db.rentals[i].planned_duration_hours = 30
       /\ db.rentals[i].base_cost > 0

\* the first n rentals of d: total cost of the completed ones, sum and number
\* of the actual durations on file
RECURSIVE CompletedRevenue(_, _)
CompletedRevenue(d, n) ==
  IF n = 0 THEN 0
  ELSE CompletedRevenue(d, n - 1)
       + (IF d.rentals[n].status = "COMPLETED" THEN d.rentals[n].total_cost ELSE 0)

RECURSIVE DurationSum(_, _)
DurationSum(d, n) ==
  IF n = 0 THEN 0
  ELSE DurationSum(d, n - 1)
       + (IF d.rentals[n].actual_duration # NULL
          THEN d.rentals[n].actual_duration ELSE 0)

RECURSIVE DurationCount(_, _)
DurationCount(d, n) ==
  IF n = 0 THEN 0
  ELSE DurationCount(d, n - 1)
       + (IF d.rentals[n].actual_duration # NULL THEN 1 ELSE 0)

\* report r is the report of database d
IsReportOf(r, d) ==
  LET n == Len(d.rentals) IN
  /\ r.total_revenue = CompletedRevenue(d, n)
  /\ r.total_rentals = n
  /\ r.active_rentals + Cardinality({i \in 1..n : d.rentals[i].status # "ACTIVE"}) = n
  /\ r.avg_duration.den > 0
  /\ IF DurationCount(d, n) = 0
     THEN r.avg_duration.num = 0
     ELSE r.avg_duration.num * DurationCount(d, n)
            = DurationSum(d, n) * r.avg_duration.den
  /\ IF n = 0
     THEN /\ r.total_revenue = 0 /\ r.total_rentals = 0 /\ r.active_rentals = 0
          /\ r.avg_duration.num = 0 /\ r.popular_bike = "N/A"
     ELSE \E i \in 1..n : r.popular_bike = d.bikes[d.rentals[i].bike_id].bike_type

\* C19: generate_business_report changes no bike, rental or customer and
\* takes no lock, and the report it is about to print gives the revenue as the
\* sum of the completed rentals' total cost, the number of rentals, the number
\* of active rentals and the mean of the actual durations on file; over no
\* rental it gives revenue 0, counts 0, average 0 and no popular type.
C19_ReportIsReadOnlyAggregate ==
  [][\A s \in Sessions :
       /\ ( \/ (pc[s] = "idle" /\ pc'[s] = "report_print")
            \/ Reports(s, "report:ok") )
          => /\ db' = db
             /\ uncommitted' = uncommitted
             /\ reserved' = reserved
       /\ pc'[s] = "report_print" => IsReportOf(local'[s], db')]_vars

\* C19 witness: the report is ready while one rental is completed with an
\* overtime charge and another is active
C19_Witness ==
  /\ pc[MainSession] = "report_print"
  /\ local[MainSession].total_revenue > 0
  /\ local[MainSession].active_rentals = 1
  /\ local[MainSession].total_rentals = 2
  /\ local[MainSession].avg_duration.num > 0
  /\ \E i \in DOMAIN db.rentals : db.rentals[i].additional_charges > 0

\* the ids of the customers on file in d
CustomerIds(d) == {d.customers[i].id : i \in DOMAIN d.customers}

\* C20: rent_bike and return_bike without a logged-in customer fail and leave
\* the bikes and rentals unchanged; a login with an unknown email fails and
\* leaves the logged-in customer as it was; so every rental on file belongs
\* to, and every confirmed rent or return was made by, a customer on file.
C20_LoginRequired ==
  [][\A s \in Sessions :
       /\ \A b \in BikeInputs, h \in DurationInputs :
            (RentSelect(s, b, h) /\ current_customer[s] = None)
            => /\ pc'[s] = "done" /\ last' = "rent:login"
               /\ db' = db /\ uncommitted' = uncommitted
       /\ \A r \in RentalInputs :
            (ReturnSelect(s, r) /\ current_customer[s] = None)
            => /\ pc'[s] = "done" /\ last' = "return:login"
               /\ db' = db /\ uncommitted' = uncommitted
       /\ \A email \in Emails :
            ( /\ LoginCustomer(s, email)
              /\ \A i \in DOMAIN db.customers : db.customers[i].email # email )
            => /\ pc'[s] = "done" /\ last' = "login:notfound"
               /\ current_customer' = current_customer
               /\ db' = db
       /\ (Reports(s, "rent:ok") \/ Reports(s, "return:ok"))
            => current_customer[s] \in CustomerIds(db')
       /\ \A i \in DOMAIN db'.rentals :
            db'.rentals[i].customer_id \in CustomerIds(db')]_vars

\* C20 witness: a login with an unknown email just failed while the customer
\* who stays logged in has an active rental
C20_Witness ==
  /\ last = "login:notfound"
  /\ current_customer[MainSession] # None
  /\ Len(db.customers) = 1
  /\ \E i \in DOMAIN db.rentals :
       /\ db.rentals[i].status = "ACTIVE"
       /\ db.rentals[i].customer_id = current_customer[MainSession]

\* C21: with calls executed one at a time, return_bike on an active rental
\* of the logged-in customer passes its check, each of its statements can
\* then run, and its commit reports success with the rental completed and
\* the bike available; on an available bike rent_bike then passes its check,
\* each of its statements can run while the rentals table has room, and its
\* commit adds a new active record and leaves every older record as it is.
C21_CloseThenRentAgain ==
  \A s \in {MainSession} :
    /\ \A r \in RentalInputs :
         ( /\ pc[s] = "idle"
           /\ current_customer[s] # None
           /\ OwnActiveRental(db, r, current_customer[s]) )
         => ENABLED (ReturnSelect(s, r) /\ pc'[s] = "return_rental")
    /\ pc[s] = "return_rental" => ENABLED ReturnRental(s, Clock)
    /\ pc[s] = "return_bike" => ENABLED ReturnBikeFlag(s)
    /\ pc[s] = "return_commit" =>
         ENABLED ( /\ ReturnCommit(s)
                   /\ last' = "return:ok"
                   /\ db'.bikes[local[s].bike_id].is_available
                   /\ \A i \in DOMAIN db'.rentals :
                        db'.rentals[i].id = local[s].rental_id
                          => db'.rentals[i].status = "COMPLETED" )
    /\ \A b \in DOMAIN db.bikes :
         ( /\ pc[s] = "idle"
           /\ current_customer[s] # None
           /\ db.bikes[b].is_available )
         => \E h \in DurationInputs :
              ENABLED (RentSelect(s, b, h) /\ pc'[s] = "rent_insert")
    /\ (pc[s] = "rent_insert" /\ Len(db.rentals) < MaxRentals)
         => ENABLED RentInsert(s, Clock)
    /\ pc[s] = "rent_update" => ENABLED RentUpdate(s)
    /\ pc[s] = "rent_commit" =>
         ENABLED ( /\ RentCommit(s)
                   /\ last' = "rent:ok"
                   /\ Len(db'.rentals) = Len(db.rentals) + 1
                   /\ db'.rentals[Len(db'.rentals)].status = "ACTIVE"
                   /\ db'.rentals[Len(db'.rentals)].bike_id = local[s].bike_id
                   /\ \A i \in DOMAIN db.rentals :
                        db'.rentals[i] = db.rentals[i] )

\* C21 witness: a customer, not the first one registered, has just rented
\* again the bike of a rental that customer closed before
C21_Witness ==
  /\ last = "rent:ok"
  /\ current_customer[MainSession] = 2
  /\ \E i, j \in DOMAIN db.rentals :
       /\ i < j
       /\ db.rentals[i].bike_id = db.rentals[j].bike_id
       /\ db.rentals[i].customer_id = current_customer[MainSession]
       /\ db.rentals[j].customer_id = current_customer[MainSession]
       /\ db.rentals[i].status = "COMPLETED"
       /\ db.rentals[j].status = "ACTIVE"
       /\ db.bikes[db.rentals[i].bike_id].is_available = FALSE

=============================================================================
